---- MODULE Spec2Model ----
(***************************************************************************)
(* The read-path query service of jaeger-idl's demo servers.               *)
(*                                                                         *)
(* Two programs share one design: the flat span-list server (rep = "A",    *)
(* the api_v2 span model) and the OTLP resource/scope/span server          *)
(* (rep = "B", cmd/api_v2_demo/main.go).  A deployment runs one of them.   *)
(*                                                                         *)
(* Strings that are compared only for equality are TLA+ strings.  Trace    *)
(* identifiers and the keys of the trace map are sequences of character    *)
(* codes, so that the binary form and the hexadecimal rendering of one     *)
(* identifier are different values.  Identifiers are one byte wide here    *)
(* (sixteen in the program); a hexadecimal rendering is twice as long as   *)
(* the binary form in both.                                                *)
(***************************************************************************)
EXTENDS Integers, Sequences, FiniteSets, TLC

VARIABLES
    rep,         \* which program is deployed: "A" (span list) or "B" (OTLP)
    services,    \* q.services
    operations,  \* q.operations: service -> sequence of operation names
    traces,      \* q.traces: key -> trace content
    nPuts,       \* number of q.traces[...] = ... assignments executed
    lastPut,     \* the locals traceID and traces of the running constructor
    phase,       \* "new", "populating" (inside initDemoData), "serving"
    op,          \* the handler in flight or just finished
    req,         \* its request
    pc,          \* "idle", "running" (inside FindTraces' loop), "done"
    scanned,     \* keys the range loop of FindTraces has produced, in order
    matchedLog,  \* keys logged as "Matched trace", in order
    sent,        \* chunks the stream accepted, in order
    sendErr,     \* what the last stream.Send returned
    ret,         \* what the handler returned
    resp,        \* response message of a unary handler
    cancelled,   \* the caller cancelled the stream's context
    cancelAt,    \* Len(scanned) when the caller cancelled
    storeRead,   \* the handler has read q.traces
    other        \* the handler running on the server's other goroutine

vars == << rep, services, operations, traces, nPuts, lastPut, phase, op, req, pc,
           scanned, matchedLog, sent, sendErr, ret, resp, cancelled,
           cancelAt, storeRead, other >>

callVars == << op, req, pc, scanned, matchedLog, sent, sendErr, ret, resp,
               cancelled, cancelAt, storeRead >>

dataVars == << rep, services, operations, traces, nPuts, lastPut, phase,
              other >>

(***************************************************************************)
(* Bounds                                                                  *)
(***************************************************************************)
\* number of assignments to q.traces during population
MaxPuts == 3

(***************************************************************************)
(* Values                                                                  *)
(***************************************************************************)
\* a nil pointer
Nil == [isNil |-> TRUE]

\* a nil error
NoErr == "nil"

\* the error a stream.Send returns when the transport fails
SendErrors == {"Unavailable"}

\* the error a stream.Send returns once the stream's context is cancelled
ErrCanceled == "Canceled"

\* a handler that dereferenced a nil pointer
Panic == "panic"

NoResp == [kind |-> "none"]

NoReq == [kind |-> "none"]

\* no sample-trace constructor is running
NoPut == [key |-> << >>, trace |-> Nil]

EmptyMap == [k \in {} |-> Nil]

\* a goroutine of the server that runs no handler
IdleHandler ==
    [op |-> "none", req |-> NoReq, pc |-> "idle", scanned |-> << >>,
     matchedLog |-> << >>, sent |-> << >>, sendErr |-> NoErr,
     ret |-> "pending", resp |-> NoResp, cancelled |-> FALSE,
     cancelAt |-> 0, storeRead |-> FALSE]

(***************************************************************************)
(* Trace identifiers                                                       *)
(***************************************************************************)
\* "12", "ab", "fe", "00" as character codes
Lit12 == << 49, 50 >>
LitAB == << 97, 98 >>
LitFE == << 102, 101 >>
Lit00 == << 48, 48 >>

\* the literals the sample-trace constructors store traces under
StoredLits == { Lit12, LitAB, LitFE }

\* a literal no trace is ever stored under
UnknownLits == { Lit00 }

HexDigit(n) == IF n < 10 THEN 48 + n ELSE 87 + n

HexValue(c) == IF c >= 97 THEN c - 87 ELSE c - 48

RECURSIVE TraceIDFromString(_)
\* model.TraceIDFromString: parse a hexadecimal string into the binary id
TraceIDFromString(s) ==
    IF Len(s) < 2 THEN << >>
    ELSE << 16 * HexValue(s[1]) + HexValue(s[2]) >>
         \o TraceIDFromString(SubSeq(s, 3, Len(s)))

RECURSIVE TraceIDString(_)
\* model.TraceID.String: render the binary id in lower-case hexadecimal
TraceIDString(id) ==
    IF id = << >> THEN << >>
    ELSE << HexDigit(id[1] \div 16), HexDigit(id[1] % 16) >>
         \o TraceIDString(Tail(id))

\* Go's string(b) for a byte slice b: the same bytes, no rendering
BytesToString(b) == [i \in 1..Len(b) |-> b[i]]

\* the request's trace_id field: empty, a hexadecimal string, or raw bytes
ReqTraceIds ==
    { << >> }
    \cup (StoredLits \cup UnknownLits)
    \cup { TraceIDFromString(l) : l \in StoredLits \cup UnknownLits }

(***************************************************************************)
(* Trace content, representation A: a sequence of spans                    *)
(***************************************************************************)
SpanA(svc, opName) ==
    [Process |-> [ServiceName |-> svc], OperationName |-> opName]

OrphanSpanA(opName) == [Process |-> Nil, OperationName |-> opName]

TracesA ==
    { << SpanA("frontend", "HTTP POST /api/login"),
         SpanA("auth-service", "validate-token") >>,
      << SpanA("frontend", "authenticate"),
         SpanA("auth-service", "HTTP POST /api/login") >>,
      << OrphanSpanA("validate-token") >>,
      << OrphanSpanA("authenticate"), SpanA("", "authenticate") >>,
      << >> }

(***************************************************************************)
(* Trace content, representation B: TracesData                             *)
(***************************************************************************)
\* stringAttr
stringAttr(key, value) == [Key |-> key, Value |-> [StringValue |-> value]]

\* intAttr
intAttr(key, value) == [Key |-> key, Value |-> [IntValue |-> value]]

Res(attrs) == [Attributes |-> attrs]

\* a ResourceSpans; a ScopeSpans is the sequence of its spans' names
RS(resource, scopeSpans) == [Resource |-> resource, ScopeSpans |-> scopeSpans]

TracesB ==
    { [ResourceSpans |->
        << RS(Res(<< stringAttr("service.name", "frontend"),
                     stringAttr("hostname", "frontend-01") >>),
              << << "HTTP POST /api/login" >> >>),
           RS(Res(<< stringAttr("service.name", "auth-service") >>),
              << << "validate-token" >> >>) >>],
      [ResourceSpans |->
        << RS(Res(<< stringAttr("hostname", "frontend-01"),
                     stringAttr("service.name", "frontend") >>),
              << << >>, << "HTTP POST /api/login", "authenticate" >> >>),
           RS(Res(<< stringAttr("service.name", "auth-service") >>),
              << << "HTTP POST /api/login" >> >>) >>],
      [ResourceSpans |->
        << RS(Res(<< stringAttr("service.name", "auth-service") >>),
              << >>) >>],
      [ResourceSpans |->
        << RS(Nil, << << "validate-token" >> >>) >>],
      [ResourceSpans |->
        << RS(Res(<< intAttr("pid", 7), stringAttr("hostname", "db-01") >>),
              << << "authenticate" >> >>) >>],
      [ResourceSpans |-> << >>] }

TraceUniverse == IF rep = "A" THEN TracesA ELSE TracesB

(***************************************************************************)
(* Catalog content                                                         *)
(***************************************************************************)
DemoOperations ==
    [s \in {"frontend", "auth-service", "database"} |->
        CASE s = "frontend" ->
               << "HTTP GET /api/users", "HTTP POST /api/login",
                  "HTTP GET /health" >>
          [] s = "auth-service" ->
               << "authenticate", "validate-token", "refresh-token" >>
          [] OTHER ->
               << "SELECT users", "INSERT session", "UPDATE last_login" >>]

\* the catalog initDemoData builds
DemoCatalog ==
    [services |-> << "frontend", "auth-service", "database" >>,
     operations |-> DemoOperations]

\* other catalogs a population step can build
Catalogs ==
    { DemoCatalog,
      [services |-> << "frontend", "auth-service" >>,
       operations |-> [s \in {"auth-service"} |->
                         << "validate-token", "authenticate" >>]],
      [services |-> << "frontend" >>,
       operations |-> [s \in {"frontend"} |-> << >>]],
      [services |-> << "database" >>,
       operations |-> [s \in {"", "database"} |->
                         IF s = "" THEN << "authenticate" >>
                         ELSE << "SELECT users", "SELECT users" >>]],
      [services |-> << >>, operations |-> EmptyMap] }

ServiceNames == {"frontend", "auth-service", ""}

CatalogServiceNames == {"frontend", "auth-service", "database", ""}

OperationNames == {"", "validate-token", "authenticate"}

SpanKinds == {"", "server"}

(***************************************************************************)
(* The trace map                                                           *)
(***************************************************************************)
\* Put that keeps what a key already holds (insert-if-absent)
PutKeepFirst(m, key, t) ==
    [k \in DOMAIN m \cup {key} |-> IF k \in DOMAIN m THEN m[k] ELSE t]

\* m[key] = t
Put(m, key, t) ==
    [k \in DOMAIN m \cup {key} |-> IF k = key THEN t ELSE m[k]]

\* v, ok := m[key]
Has(m, key) == key \in DOMAIN m

\* Trace Store Get: the content under key, or Nil when there is none
Get(m, key) == IF Has(m, key) THEN m[key] ELSE Nil

\* the key createSampleTraceN stores its trace under
StoreKey(lit) ==
    IF rep = "A" THEN TraceIDString(TraceIDFromString(lit)) ELSE lit

\* the key GetTrace looks up
LookupKey(r) ==
    IF rep = "A" THEN BytesToString(r.TraceId) ELSE r.TraceId

\* the chunk GetTrace and FindTraces send for a stored trace
Chunk(t) ==
    IF rep = "A" THEN [Spans |-> t]
    ELSE [ResourceSpans |-> t.ResourceSpans]

(***************************************************************************)
(* Matching                                                                *)
(***************************************************************************)
RECURSIVE matchedAOperationAlone(_, _, _, _)
\* the span loop with the operation test outside the service test
matchedAOperationAlone(spans, i, serviceName, operationName) ==
    IF i > Len(spans) THEN FALSE
    ELSE IF \/ /\ spans[i].Process # Nil
               /\ spans[i].Process.ServiceName = serviceName
               /\ operationName = ""
            \/ spans[i].OperationName = operationName
         THEN TRUE
         ELSE matchedAOperationAlone(spans, i + 1, serviceName,
                                     operationName)

RECURSIVE matchedA(_, _, _, _)
\* representation A: the span loop of FindTraces, from span i on
matchedA(spans, i, serviceName, operationName) ==
    IF i > Len(spans) THEN FALSE
    ELSE IF /\ spans[i].Process # Nil
            /\ spans[i].Process.ServiceName = serviceName
            /\ \/ operationName = ""
               \/ spans[i].OperationName = operationName
         THEN TRUE
         ELSE matchedA(spans, i + 1, serviceName, operationName)

\* AnyValue.GetStringValue: the string, or "" for another kind of value
GetStringValue(v) ==
    IF "StringValue" \in DOMAIN v THEN v.StringValue ELSE ""

RECURSIVE attrLoop(_, _)
\* the attribute loop of getServiceName, from attribute i on
attrLoop(attrs, i) ==
    IF i > Len(attrs) THEN ""
    ELSE IF attrs[i].Key = "service.name"
         THEN GetStringValue(attrs[i].Value)
         ELSE attrLoop(attrs, i + 1)

getServiceName(resource) ==
    IF resource = Nil THEN "" ELSE attrLoop(resource.Attributes, 1)

RECURSIVE spanLoop(_, _, _)
\* the loop over ss.Spans, from span i on
spanLoop(spans, i, operationName) ==
    IF i > Len(spans) THEN FALSE
    ELSE IF spans[i] = operationName THEN TRUE
         ELSE spanLoop(spans, i + 1, operationName)

RECURSIVE scopeLoop(_, _, _)
\* the loop over rs.ScopeSpans, from scope i on
scopeLoop(scopeSpans, i, operationName) ==
    IF i > Len(scopeSpans) THEN FALSE
    ELSE IF spanLoop(scopeSpans[i], 1, operationName) THEN TRUE
         ELSE scopeLoop(scopeSpans, i + 1, operationName)

RECURSIVE matchedB(_, _, _, _)
\* representation B: the loop over traces.ResourceSpans, from entry i on
matchedB(rss, i, serviceName, operationName) ==
    IF i > Len(rss) THEN FALSE
    ELSE IF getServiceName(rss[i].Resource) = serviceName
         THEN IF operationName = "" THEN TRUE
              ELSE IF scopeLoop(rss[i].ScopeSpans, 1, operationName)
                   THEN TRUE
                   ELSE matchedB(rss, i + 1, serviceName, operationName)
         ELSE matchedB(rss, i + 1, serviceName, operationName)

\* the value of `matched` after the inner loops of FindTraces
matched(t, serviceName, operationName) ==
    IF rep = "A" THEN matchedA(t, 1, serviceName, operationName)
    ELSE matchedB(t.ResourceSpans, 1, serviceName, operationName)

(***************************************************************************)
(* Initial state: NewQueryService                                          *)
(***************************************************************************)
IdleCall ==
    /\ op = "none"
    /\ req = NoReq
    /\ pc = "idle"
    /\ scanned = << >>
    /\ matchedLog = << >>
    /\ sent = << >>
    /\ sendErr = NoErr
    /\ ret = "pending"
    /\ resp = NoResp
    /\ cancelled = FALSE
    /\ cancelAt = 0
    /\ storeRead = FALSE

Init ==
    /\ rep \in {"A", "B"}
    /\ services = << >>
    /\ operations = EmptyMap
    /\ traces = EmptyMap
    /\ nPuts = 0
    /\ lastPut = NoPut
    /\ phase = "new"
    /\ other = IdleHandler
    /\ IdleCall

(***************************************************************************)
(* Population: initDemoData                                                *)
(***************************************************************************)
\* the catalog assignments at the head of initDemoData
initDemoData(c) ==
    /\ phase = "new"
    /\ services' = c.services
    /\ operations' = c.operations
    /\ phase' = "populating"
    /\ UNCHANGED << rep, traces, nPuts, lastPut, other >>
    /\ UNCHANGED callVars

\* createSampleTrace1 / createSampleTrace2: build a trace, store it
createSampleTrace(lit, t) ==
    /\ phase = "populating"
    /\ nPuts < MaxPuts
    /\ traces' = Put(traces, StoreKey(lit), t)
    /\ nPuts' = nPuts + 1
    /\ lastPut' = [key |-> StoreKey(lit), trace |-> t]
    /\ UNCHANGED << rep, services, operations, phase, other >>
    /\ UNCHANGED callVars

\* main: grpcServer.Serve after initDemoData returned
Serve ==
    /\ phase = "populating"
    /\ phase' = "serving"
    /\ lastPut' = NoPut
    /\ UNCHANGED << rep, services, operations, traces, nPuts, other >>
    /\ UNCHANGED callVars

(***************************************************************************)
(* Handlers                                                                *)
(***************************************************************************)
CanStart == phase = "serving" /\ pc = "idle"

\* stream.Send on a stream whose context may have been cancelled
SendResults == IF cancelled THEN {ErrCanceled} ELSE {NoErr} \cup SendErrors

\* GetTrace that answers a missing trace with an error
GetTraceNotFoundIsError(r) ==
    /\ phase = "serving" /\ pc = "idle"
    /\ op' = "GetTrace"
    /\ req' = r
    /\ storeRead' = TRUE
    /\ IF Has(traces, LookupKey(r))
       THEN \E e \in SendResults :
              /\ sendErr' = e
              /\ sent' = IF e = NoErr
                         THEN << Chunk(traces[LookupKey(r)]) >>
                         ELSE << >>
              /\ ret' = e
       ELSE /\ sendErr' = NoErr
            /\ sent' = << >>
            /\ ret' = "NotFound"
    /\ pc' = "done"
    /\ UNCHANGED << scanned, matchedLog, resp, cancelled, cancelAt >>
    /\ UNCHANGED dataVars

\* GetTrace, the whole handler
GetTrace(r) ==
    /\ CanStart
    /\ op' = "GetTrace"
    /\ req' = r
    /\ storeRead' = TRUE
    /\ IF Has(traces, LookupKey(r))
       THEN \E e \in SendResults :
              /\ sendErr' = e
              /\ sent' = IF e = NoErr
                         THEN << Chunk(traces[LookupKey(r)]) >>
                         ELSE << >>
              /\ ret' = e
       ELSE /\ sendErr' = NoErr
            /\ sent' = << >>
            /\ ret' = NoErr
    /\ pc' = "done"
    /\ UNCHANGED << scanned, matchedLog, resp, cancelled, cancelAt >>
    /\ UNCHANGED dataVars

\* FindTraces up to the range statement: the log line reads req.Query.*
FindTracesEnter(r) ==
    /\ CanStart
    /\ op' = "FindTraces"
    /\ req' = r
    /\ IF r.Query = Nil
       THEN /\ pc' = "done"
            /\ ret' = Panic
            /\ storeRead' = FALSE
       ELSE /\ pc' = "running"
            /\ ret' = "pending"
            /\ storeRead' = TRUE
    /\ UNCHANGED << scanned, matchedLog, sent, sendErr, resp, cancelled,
                    cancelAt >>
    /\ UNCHANGED dataVars

ScannedSet == { scanned[i] : i \in 1..Len(scanned) }

\* the loop iteration that drops the error of stream.Send and goes on
FindTracesScanDropsError ==
    /\ op = "FindTraces"
    /\ pc = "running"
    /\ \E traceID \in DOMAIN traces \ ScannedSet :
         /\ scanned' = Append(scanned, traceID)
         /\ IF matched(traces[traceID], req.Query.ServiceName,
                       req.Query.OperationName)
            THEN /\ matchedLog' = Append(matchedLog, traceID)
                 /\ \E e \in SendResults :
                      /\ sendErr' = e
                      /\ sent' = IF e = NoErr
                                 THEN Append(sent, Chunk(traces[traceID]))
                                 ELSE sent
                      /\ UNCHANGED << pc, ret >>
            ELSE UNCHANGED << matchedLog, sendErr, sent, pc, ret >>
    /\ UNCHANGED << op, req, resp, cancelled, cancelAt, storeRead >>
    /\ UNCHANGED dataVars

\* one iteration of the range loop of FindTraces
FindTracesScan ==
    /\ op = "FindTraces"
    /\ pc = "running"
    /\ \E traceID \in DOMAIN traces \ ScannedSet :
         /\ scanned' = Append(scanned, traceID)
         /\ IF matched(traces[traceID], req.Query.ServiceName,
                       req.Query.OperationName)
            THEN /\ matchedLog' = Append(matchedLog, traceID)
                 /\ \E e \in SendResults :
                      /\ sendErr' = e
                      /\ IF e = NoErr
                         THEN /\ sent' = Append(sent, Chunk(traces[traceID]))
                              /\ UNCHANGED << pc, ret >>
                         ELSE /\ sent' = sent
                              /\ pc' = "done"
                              /\ ret' = e
            ELSE UNCHANGED << matchedLog, sendErr, sent, pc, ret >>
    /\ UNCHANGED << op, req, resp, cancelled, cancelAt, storeRead >>
    /\ UNCHANGED dataVars

\* the loop that stops after its first match instead of going on
FindTracesReturnAfterFirstMatch ==
    /\ op = "FindTraces"
    /\ pc = "running"
    /\ DOMAIN traces \ ScannedSet = {} \/ Len(matchedLog) >= 1
    /\ pc' = "done"
    /\ ret' = NoErr
    /\ UNCHANGED << op, req, scanned, matchedLog, sent, sendErr, resp,
                    cancelled, cancelAt, storeRead >>
    /\ UNCHANGED dataVars

\* the range loop is exhausted: return nil
FindTracesReturn ==
    /\ op = "FindTraces"
    /\ pc = "running"
    /\ DOMAIN traces \ ScannedSet = {}
    /\ pc' = "done"
    /\ ret' = NoErr
    /\ UNCHANGED << op, req, scanned, matchedLog, sent, sendErr, resp,
                    cancelled, cancelAt, storeRead >>
    /\ UNCHANGED dataVars

\* the caller cancels the in-flight FindTraces stream
Cancel ==
    /\ op = "FindTraces"
    /\ pc = "running"
    /\ ~cancelled
    /\ cancelled' = TRUE
    /\ cancelAt' = Len(scanned)
    /\ UNCHANGED << op, req, pc, scanned, matchedLog, sent, sendErr, ret,
                    resp, storeRead >>
    /\ UNCHANGED dataVars

\* a non-nil empty slice, or a slice with elements
Slice(elems) == [isNil |-> FALSE, elems |-> elems]

\* a nil slice
NilSlice == [isNil |-> TRUE, elems |-> << >>]

\* the Operation message GetOperations builds for one name
Operation(name, r) ==
    IF rep = "A" THEN [Name |-> name, SpanKind |-> r.SpanKind]
    ELSE [Name |-> name]

\* the slice declared without a value: nil unless something is appended
operationsForNilWhenEmpty(r) ==
    IF Has(operations, r.Service) /\ Len(operations[r.Service]) > 0
    THEN Slice([i \in 1..Len(operations[r.Service]) |->
                  Operation(operations[r.Service][i], r)])
    ELSE NilSlice

\* the slice GetOperations returns
operationsFor(r) ==
    IF Has(operations, r.Service)
    THEN Slice([i \in 1..Len(operations[r.Service]) |->
                  Operation(operations[r.Service][i], r)])
    ELSE Slice(<< >>)

\* GetOperations that records an unknown service in q.operations
GetOperationsCachesMiss(r) ==
    /\ phase = "serving" /\ pc = "idle"
    /\ op' = "GetOperations"
    /\ req' = r
    /\ resp' = [kind |-> "GetOperationsResponse",
                Operations |-> operationsFor(r)]
    /\ ret' = NoErr
    /\ pc' = "done"
    /\ operations' = IF Has(operations, r.Service) THEN operations
                     ELSE Put(operations, r.Service, << >>)
    /\ UNCHANGED << scanned, matchedLog, sent, sendErr, cancelled, cancelAt,
                    storeRead >>
    /\ UNCHANGED << rep, services, traces, nPuts, lastPut, phase, other >>

\* GetOperations, the whole handler
GetOperations(r) ==
    /\ CanStart
    /\ op' = "GetOperations"
    /\ req' = r
    /\ resp' = [kind |-> "GetOperationsResponse",
                Operations |-> operationsFor(r)]
    /\ ret' = NoErr
    /\ pc' = "done"
    /\ UNCHANGED << scanned, matchedLog, sent, sendErr, cancelled, cancelAt,
                    storeRead >>
    /\ UNCHANGED dataVars

\* GetServices, the whole handler
GetServices ==
    /\ CanStart
    /\ op' = "GetServices"
    /\ req' = [kind |-> "GetServicesRequest"]
    /\ resp' = [kind |-> "GetServicesResponse", Services |-> services]
    /\ ret' = NoErr
    /\ pc' = "done"
    /\ UNCHANGED << scanned, matchedLog, sent, sendErr, cancelled, cancelAt,
                    storeRead >>
    /\ UNCHANGED dataVars

\* the two links GetDependencies returns
DemoDependencies ==
    << [Parent |-> "frontend", Child |-> "auth-service", CallCount |-> 10],
       [Parent |-> "auth-service", Child |-> "database", CallCount |-> 8] >>

\* GetDependencies, the whole handler (representation A only)
GetDependencies ==
    /\ CanStart
    /\ rep = "A"
    /\ op' = "GetDependencies"
    /\ req' = [kind |-> "GetDependenciesRequest"]
    /\ resp' = [kind |-> "GetDependenciesResponse",
                Dependencies |-> DemoDependencies]
    /\ ret' = NoErr
    /\ pc' = "done"
    /\ UNCHANGED << scanned, matchedLog, sent, sendErr, cancelled, cancelAt,
                    storeRead >>
    /\ UNCHANGED dataVars

\* the RPC is over; the server is ready for the next one
Complete ==
    /\ pc = "done"
    /\ op' = "none"
    /\ req' = NoReq
    /\ pc' = "idle"
    /\ scanned' = << >>
    /\ matchedLog' = << >>
    /\ sent' = << >>
    /\ sendErr' = NoErr
    /\ ret' = "pending"
    /\ resp' = NoResp
    /\ cancelled' = FALSE
    /\ cancelAt' = 0
    /\ storeRead' = FALSE
    /\ UNCHANGED dataVars

GetTraceRequests == { [TraceId |-> b] : b \in ReqTraceIds }

FindTracesRequests ==
    { [Query |-> Nil] }
    \cup { [Query |-> [ServiceName |-> s, OperationName |-> o]] :
             s \in ServiceNames, o \in OperationNames }

GetOperationsRequests ==
    { [Service |-> s, SpanKind |-> k] :
        s \in CatalogServiceNames, k \in SpanKinds }

Next ==
    \/ \E c \in {DemoCatalog} : initDemoData(c)
    \/ \E lit \in StoredLits, t \in TraceUniverse : createSampleTrace(lit, t)
    \/ Serve
    \/ \E r \in GetTraceRequests : GetTrace(r)
    \/ \E r \in FindTracesRequests : FindTracesEnter(r)
    \/ FindTracesScan
    \/ FindTracesReturn
    \/ Cancel
    \/ \E r \in GetOperationsRequests : GetOperations(r)
    \/ GetServices
    \/ GetDependencies
    \/ Complete

Spec == Init /\ [][Next]_vars

\* the catalog handlers over every catalog, on a store without traces
NextCatalog ==
    \/ \E c \in Catalogs : initDemoData(c)
    \/ Serve
    \/ \E r \in GetOperationsRequests : GetOperations(r)
    \/ GetServices
    \/ GetDependencies
    \/ Complete

SpecCatalog == Init /\ [][NextCatalog]_vars

(***************************************************************************)
(* Concurrent handlers: grpcServer.Serve runs every call on a goroutine of *)
(* its own, with nothing serialising the handlers.  Two goroutines are     *)
(* modelled: the handler actions advance the one that holds the call       *)
(* variables, and the scheduler can swap it with the other at any point    *)
(* between two steps.                                                      *)
(***************************************************************************)
\* the running goroutine's handler state as one record
ThisHandler ==
    [op |-> op, req |-> req, pc |-> pc, scanned |-> scanned,
     matchedLog |-> matchedLog, sent |-> sent, sendErr |-> sendErr,
     ret |-> ret, resp |-> resp, cancelled |-> cancelled,
     cancelAt |-> cancelAt, storeRead |-> storeRead]

\* the scheduler lets the other goroutine run
Switch ==
    /\ phase = "serving"
    /\ pc # "idle" \/ other.pc # "idle"
    /\ other' = ThisHandler
    /\ op' = other.op
    /\ req' = other.req
    /\ pc' = other.pc
    /\ scanned' = other.scanned
    /\ matchedLog' = other.matchedLog
    /\ sent' = other.sent
    /\ sendErr' = other.sendErr
    /\ ret' = other.ret
    /\ resp' = other.resp
    /\ cancelled' = other.cancelled
    /\ cancelAt' = other.cancelAt
    /\ storeRead' = other.storeRead
    /\ UNCHANGED << rep, services, operations, traces, nPuts, lastPut, phase >>

\* the literals of the two sample traces
ConcurrentLits == { Lit12, LitFE }

\* two sample traces per representation
ConcurrentTraces ==
    IF rep = "A"
    THEN { << SpanA("frontend", "HTTP POST /api/login"),
              SpanA("auth-service", "validate-token") >>,
           << OrphanSpanA("validate-token") >> }
    ELSE { [ResourceSpans |->
             << RS(Res(<< stringAttr("service.name", "frontend"),
                          stringAttr("hostname", "frontend-01") >>),
                   << << "HTTP POST /api/login" >> >>),
                RS(Res(<< stringAttr("service.name", "auth-service") >>),
                   << << "validate-token" >> >>) >>],
           [ResourceSpans |->
             << RS(Nil, << << "validate-token" >> >>) >>] }

\* found (hexadecimal form), not found
ConcurrentGetTraceRequests ==
    { [TraceId |-> b] : b \in { Lit12, Lit00 } }

\* some traces match, one trace matches, no trace matches
ConcurrentFindTracesRequests ==
    { [Query |-> [ServiceName |-> "frontend", OperationName |-> ""]],
      [Query |-> [ServiceName |-> "auth-service",
                  OperationName |-> "validate-token"]],
      [Query |-> [ServiceName |-> "database", OperationName |-> ""]] }

\* a known service, an unknown service
ConcurrentGetOperationsRequests ==
    { [Service |-> s, SpanKind |-> ""] : s \in { "frontend", "" } }

NextConcurrent ==
    \/ \E c \in {DemoCatalog} : initDemoData(c)
    \/ \E lit \in ConcurrentLits, t \in ConcurrentTraces :
         createSampleTrace(lit, t)
    \/ Serve
    \/ \E r \in ConcurrentGetTraceRequests : GetTrace(r)
    \/ \E r \in ConcurrentFindTracesRequests : FindTracesEnter(r)
    \/ FindTracesScan
    \/ FindTracesReturn
    \/ Cancel
    \/ \E r \in ConcurrentGetOperationsRequests : GetOperations(r)
    \/ GetServices
    \/ GetDependencies
    \/ Complete
    \/ Switch

SpecConcurrent == Init /\ [][NextConcurrent]_vars

TypeOK ==
    /\ rep \in {"A", "B"}
    /\ phase \in {"new", "populating", "serving"}
    /\ pc \in {"idle", "running", "done"}
    /\ nPuts \in 0..MaxPuts
    /\ DOMAIN traces \subseteq { StoreKey(l) : l \in StoredLits }

(***************************************************************************)
(* Vocabulary of the properties                                            *)
(***************************************************************************)
MatchedSet == { matchedLog[i] : i \in 1..Len(matchedLog) }

\* a FindTraces call that got past its log line
InFindTraces == op = "FindTraces" /\ ret # Panic

\* the resource declares a service: it is there and has a service.name
OwnerPresent(resource) ==
    /\ resource # Nil
    /\ \E i \in 1..Len(resource.Attributes) :
         resource.Attributes[i].Key = "service.name"

\* some span of t is owned by service s and, if o is given, is named o
HasMatchingSpan(t, s, o) ==
    IF rep = "A"
    THEN \E i \in 1..Len(t) :
           /\ t[i].Process # Nil
           /\ t[i].Process.ServiceName = s
           /\ (o = "" \/ t[i].OperationName = o)
    ELSE \E i \in 1..Len(t.ResourceSpans) :
           /\ OwnerPresent(t.ResourceSpans[i].Resource)
           /\ getServiceName(t.ResourceSpans[i].Resource) = s
           /\ \E j \in 1..Len(t.ResourceSpans[i].ScopeSpans) :
                \E k \in 1..Len(t.ResourceSpans[i].ScopeSpans[j]) :
                  (o = "" \/ t.ResourceSpans[i].ScopeSpans[j][k] = o)

\* some process or resource of t that is there names service s
HasOwner(t, s) ==
    IF rep = "A"
    THEN \E i \in 1..Len(t) :
           t[i].Process # Nil /\ t[i].Process.ServiceName = s
    ELSE \E i \in 1..Len(t.ResourceSpans) :
           /\ OwnerPresent(t.ResourceSpans[i].Resource)
           /\ getServiceName(t.ResourceSpans[i].Resource) = s

\* what a FindTraces call with this query emits when no send fails
FindAll(s, o) == { k \in DOMAIN traces : matched(traces[k], s, o) }

(***************************************************************************)
(* C1.  FindTraces selects a trace for emission if and only if at least    *)
(* one span of the trace is owned by the queried service and, when an      *)
(* operation name is given, carries exactly that name; in both             *)
(* representations, a resource without spans included.                     *)
(***************************************************************************)
C1_EmitsIffSpanMatches ==
    InFindTraces =>
      \A k \in ScannedSet :
        (k \in MatchedSet) <=>
          HasMatchingSpan(traces[k], req.Query.ServiceName,
                          req.Query.OperationName)

(***************************************************************************)
(* C2.  GetTrace with the identifier of a stored trace, in binary form or  *)
(* as its hexadecimal string, looks up the key the trace was stored under  *)
(* and, when the send succeeds, streams exactly one chunk with the whole   *)
(* trace and returns nil.                                                  *)
(***************************************************************************)
C2_GetTraceFindsStored ==
    (op = "GetTrace" /\ pc = "done" /\ sendErr = NoErr) =>
      \A lit \in StoredLits :
        ( /\ Has(traces, StoreKey(lit))
          /\ req.TraceId \in { lit, TraceIDFromString(lit) } )
        => /\ LookupKey(req) = StoreKey(lit)
           /\ sent = << Chunk(traces[StoreKey(lit)]) >>
           /\ ret = NoErr

(***************************************************************************)
(* C3.  GetTrace for an identifier that is not a key of the store sends    *)
(* no chunk and returns nil, on an empty store as well.                    *)
(***************************************************************************)
C3_NotFoundSendsNothing ==
    (op = "GetTrace" /\ pc = "done" /\ ~Has(traces, LookupKey(req))) =>
      (sent = << >> /\ ret = NoErr)

C3_Witness ==
    /\ op = "GetTrace"
    /\ pc = "done"
    /\ req.TraceId # << >>
    /\ ~Has(traces, LookupKey(req))
    /\ traces # EmptyMap
    /\ sent = << >>

(***************************************************************************)
(* C4.  FindTraces never selects a trace unless a process or resource      *)
(* that is actually there names the queried service: a missing owner is    *)
(* never a match, for the empty service name either.                       *)
(***************************************************************************)
C4_MissingOwnerNeverMatches ==
    InFindTraces =>
      \A k \in MatchedSet : HasOwner(traces[k], req.Query.ServiceName)

(***************************************************************************)
(* C5.  Whatever FindTraces({S, O}) selects is in the result of            *)
(* FindTraces({S, ""}) on the same store.                                  *)
(***************************************************************************)
C5_OperationNarrows ==
    InFindTraces =>
      /\ MatchedSet \subseteq FindAll(req.Query.ServiceName, "")
      /\ FindAll(req.Query.ServiceName, req.Query.OperationName)
           \subseteq FindAll(req.Query.ServiceName, "")

C5_Witness ==
    /\ InFindTraces
    /\ pc = "done"
    /\ req.Query.OperationName # ""
    /\ MatchedSet # {}
    /\ MatchedSet # FindAll(req.Query.ServiceName, "")
    /\ ScannedSet = DOMAIN traces

(***************************************************************************)
(* C6.  A failed send ends the handler: it returns the error the send      *)
(* returned, the chunks sent so far stay as they are, and afterwards no    *)
(* trace is scanned and no chunk is sent.                                  *)
(***************************************************************************)
C6_SendFailureAborts ==
    [][ /\ (sendErr = NoErr /\ sendErr' # NoErr) =>
             (sent' = sent /\ pc' = "done" /\ ret' = sendErr')
        /\ (sendErr # NoErr /\ pc' # "idle") =>
             (scanned' = scanned /\ sent' = sent /\ ret' = ret
              /\ pc' = "done")
      ]_vars

C6_Witness ==
    /\ op = "FindTraces"
    /\ sendErr \in SendErrors
    /\ ret = sendErr
    /\ Len(sent) = 1
    /\ DOMAIN traces \ ScannedSet # {}

(***************************************************************************)
(* C7.  A malformed request (GetTrace without a trace identifier,          *)
(* FindTraces without a query or without a service name) is rejected       *)
(* before the store is read, with an outcome that differs from the         *)
(* not-found outcome (nil, no chunk).                                      *)
(***************************************************************************)
Malformed ==
    \/ op = "GetTrace" /\ req.TraceId = << >>
    \/ op = "FindTraces" /\ req.Query = Nil
    \/ op = "FindTraces" /\ req.Query # Nil /\ req.Query.ServiceName = ""

C7_MalformedRejected ==
    (pc = "done" /\ Malformed) =>
      (~storeRead /\ ~(ret = NoErr /\ sent = << >>))

(***************************************************************************)
(* C8.  After the caller cancelled a FindTraces call, the handler starts   *)
(* scanning at most one further trace.                                     *)
(***************************************************************************)
C8_CancelStopsScan ==
    cancelled => Len(scanned) <= cancelAt + 1

(***************************************************************************)
(* C9.  A Put makes Get of its key yield exactly the content it was given  *)
(* (last write wins, nothing merged), leaves every other key as it was,    *)
(* and changes nothing when it repeats the previous Put.                   *)
(***************************************************************************)
C9_LastWriteWins ==
    [][ nPuts' = nPuts + 1 =>
          /\ Get(traces', lastPut'.key) = lastPut'.trace
          /\ \A lit \in StoredLits \cup UnknownLits :
               StoreKey(lit) # lastPut'.key =>
                 Get(traces', StoreKey(lit)) = Get(traces, StoreKey(lit))
          /\ DOMAIN traces' = DOMAIN traces \cup {lastPut'.key}
          /\ lastPut' = lastPut => traces' = traces
      ]_vars

C9_Witness ==
    /\ nPuts = 3
    /\ Cardinality(DOMAIN traces) = 2
    /\ \E k \in DOMAIN traces : k # lastPut.key /\ traces[k] # lastPut.trace
    /\ Get(traces, lastPut.key) = lastPut.trace

(***************************************************************************)
(* C10.  GetOperations returns nil as its error and a non-nil slice: one   *)
(* Operation per operation name of the service, in catalog order, and no   *)
(* element for a service the catalog does not know.                        *)
(***************************************************************************)
C10_GetOperations ==
    (op = "GetOperations" /\ pc = "done") =>
      /\ ret = NoErr
      /\ ~resp.Operations.isNil
      /\ IF req.Service \in DOMAIN operations
         THEN /\ Len(resp.Operations.elems) = Len(operations[req.Service])
              /\ \A i \in 1..Len(resp.Operations.elems) :
                   resp.Operations.elems[i].Name
                     = operations[req.Service][i]
         ELSE resp.Operations.elems = << >>

C10_Witness ==
    /\ op = "GetOperations"
    /\ pc = "done"
    /\ req.Service \in DOMAIN operations
    /\ Len(resp.Operations.elems) = 3
    /\ resp.Operations.elems[1].Name # resp.Operations.elems[3].Name

(***************************************************************************)
(* C11.  While the server is serving, whichever handlers run concurrently  *)
(* and however their steps interleave, no step changes the trace store,    *)
(* the service list or the per-service operation lists: they stay what     *)
(* they were when serving began.                                           *)
(***************************************************************************)
C11_QueriesDoNotWrite ==
    [][ phase = "serving" =>
          /\ traces' = traces
          /\ services' = services
          /\ operations' = operations
      ]_vars

C11_Witness ==
    /\ phase = "serving"
    /\ other.op = "FindTraces"
    /\ other.pc = "running"
    /\ Len(other.scanned) = 1
    /\ Len(other.sent) = 1
    /\ op = "GetOperations"
    /\ pc = "done"
    /\ req.Service \notin DOMAIN operations
    /\ Cardinality(DOMAIN traces) = 2

====
